---- MODULE Spec2Model ----
(***************************************************************************)
(* A model of src/black-hole.js (class BlackHoleMode) together with the    *)
(* parts of the browser it talks to: inline styles of the page elements,   *)
(* the requestAnimationFrame queue, the clock, the viewport and the        *)
(* document's listeners.                                                   *)
(*                                                                         *)
(* Lengths are fixed-point numbers with a resolution of 1/100 px; a        *)
(* distance (Math.sqrt) is taken at a resolution of 1 px.  An inline style *)
(* value that is a length or a number is modelled as a sequence: << >> is  *)
(* the empty string, <<n>> the value n.  Other style values are strings.   *)
(* getBoundingClientRect is modelled by the element's layout box: its      *)
(* size is the element's layout size and its place is the inline left/top  *)
(* when the element is position:fixed, the place the page gives it         *)
(* otherwise (the effect of a transform on the box is left out).           *)
(*                                                                         *)
(* The second program, src/discord-accounts.js, shares nothing with the    *)
(* first: its state is the two localStorage items, the calendar day and    *)
(* the account modal.                                                      *)
(***************************************************************************)
EXTENDS Integers, Sequences, FiniteSets, TLC

\* ---------------------------------------------------------------- bounds
NumElems == 2
MaxClock == 5600
MaxActivations == 2
MaxMouseEvents == 3
MaxPending == 3
MaxPageEvents == 1
MaxExtra == 3
MaxClicks == 3

\* ----------------------------------------------------- program constants
suckDuration == 3500
maxVelocity == 4

Elems == 1..NumElems
FrameDts == {1400, 2100}
ViewportSizes == {[w |-> 800, h |-> 600], [w |-> 100, h |-> 300]}
\* (Math.random() - 0.5) * 0.5 for the two draws of one body, in 1/100 px
JitterPairs == {<<-25, 25>>, <<25, 0>>}
GrabPoints == {0, 1}
PointerPositions == {[x |-> 5000, y |-> 5000], [x |-> 79000, y |-> 30000]}

VARIABLES
    isActive, affectedElements, elementStates, blackHoleCenter,
    floatingElements, animationFrameId, draggedElement, dragOffset,
    style, classes, hole, page, bodies, bounced, mousedownListeners,
    docListeners,
    rafQueue, clock, viewport, attached, fixedHasOffsetParent,
    dom, raised,
    phase, stopRequested, activations, pageEvents, mouseEvents, lastOp,
    \* the inputs and results of one suction-frame computation
    probe,
    \* src/discord-accounts.js
    now, localStorage, modal, granted, extraAtDayStart, lastShow,
    \* the page load and the controllers the script's initialization makes
    readyState, domContentLoaded, scriptEvaluated, loadListeners, controllers,
    clicks, toggledByClick

loadVars == <<readyState, domContentLoaded, scriptEvaluated, loadListeners,
              controllers, clicks, toggledByClick>>

accountVars == <<now, localStorage, modal, granted, extraAtDayStart, lastShow>>

pageVars == <<isActive, affectedElements, elementStates, blackHoleCenter,
              floatingElements, animationFrameId, draggedElement, dragOffset,
              style, classes, hole, page, bodies, bounced, mousedownListeners,
              docListeners,
              rafQueue, clock, viewport, attached, fixedHasOffsetParent,
              dom, raised,
              phase, stopRequested, activations, pageEvents, mouseEvents,
              lastOp>>

vars == <<isActive, affectedElements, elementStates, blackHoleCenter,
          floatingElements, animationFrameId, draggedElement, dragOffset,
          style, classes, hole, page, bodies, bounced, mousedownListeners,
          docListeners,
          rafQueue, clock, viewport, attached, fixedHasOffsetParent,
          dom, raised,
          phase, stopRequested, activations, pageEvents, mouseEvents, lastOp,
          probe, now, localStorage, modal, granted, extraAtDayStart,
          lastShow, readyState, domContentLoaded, scriptEvaluated,
          loadListeners, controllers, clicks, toggledByClick>>

\* ---------------------------------------------------------------- helpers
Max(a, b) == IF a >= b THEN a ELSE b
Min(a, b) == IF a <= b THEN a ELSE b
Abs(a) == IF a >= 0 THEN a ELSE -a
\* a / b of the source, cut toward zero at the model's resolution
Div(a, b) == IF a >= 0 THEN a \div b ELSE -((-a) \div b)
Range(s) == {s[i] : i \in DOMAIN s}

RECURSIVE SqrtSearch(_, _, _)
SqrtSearch(n, lo, hi) ==
    IF lo >= hi THEN lo
    ELSE LET mid == (lo + hi + 1) \div 2
         IN IF mid * mid <= n THEN SqrtSearch(n, mid, hi)
                              ELSE SqrtSearch(n, lo, mid - 1)
\* Math.sqrt, rounded down
sqrt(n) == SqrtSearch(n, 0, 2048)

\* ------------------------------------------------------------ the page
EmptyStyle ==
    [position |-> "", left |-> << >>, top |-> << >>, transform |-> << >>,
     zIndex |-> "", cursor |-> "", opacity |-> << >>, pointerEvents |-> ""]
\* an element the page author gave inline styles
InlineStyle ==
    [position |-> "relative", left |-> <<500>>, top |-> <<700>>,
     transform |-> <<0, 100>>, zIndex |-> "5", cursor |-> "pointer",
     opacity |-> << >>, pointerEvents |-> ""]
InitialStyle == [e \in Elems |-> IF e = 1 THEN InlineStyle ELSE EmptyStyle]

\* layout size (px) and the place (1/100 px) the page gives an element
Width(e) == IF e = 1 THEN 80 ELSE 120
Height(e) == IF e = 1 THEN 40 ELSE 60
LayoutLeft(e) == IF e = 1 THEN 6000 ELSE IF e = 2 THEN 70000 ELSE 30000
LayoutTop(e) == IF e = 1 THEN 28000 ELSE IF e = 2 THEN 53000 ELSE 2000

\* the program's and the browser's state as one value, so that a handler is
\* a function from state to state
World ==
    [isActive |-> isActive, affectedElements |-> affectedElements,
     elementStates |-> elementStates, blackHoleCenter |-> blackHoleCenter,
     floatingElements |-> floatingElements,
     animationFrameId |-> animationFrameId,
     draggedElement |-> draggedElement, dragOffset |-> dragOffset,
     style |-> style, classes |-> classes, hole |-> hole, page |-> page,
     bodies |-> bodies, bounced |-> bounced,
     mousedownListeners |-> mousedownListeners,
     docListeners |-> docListeners, rafQueue |-> rafQueue,
     nextRafId |-> Len(rafQueue) + 1, clock |-> clock, viewport |-> viewport,
     attached |-> attached, fixedHasOffsetParent |-> fixedHasOffsetParent,
     dom |-> dom, raised |-> raised,
     phase |-> phase, stopRequested |-> stopRequested]

\* A requestAnimationFrame handle is only ever tested for being set and
\* handed to cancelAnimationFrame, so handles are kept up to renaming: between
\* handlers the pending callbacks are numbered 1, 2, ... in queue order and a
\* handle whose callback has run or was cancelled is Stale (set, and no
\* pending callback's).
Stale == -1
handleAfter(w, id) ==
    IF id = 0 THEN 0
    ELSE IF \E i \in DOMAIN w.rafQueue : w.rafQueue[i].id = id
         THEN CHOOSE i \in DOMAIN w.rafQueue : w.rafQueue[i].id = id
         ELSE Stale

Commit(w) ==
    /\ isActive' = w.isActive
    /\ affectedElements' = w.affectedElements
    /\ elementStates' = w.elementStates
    /\ blackHoleCenter' = w.blackHoleCenter
    /\ floatingElements' = w.floatingElements
    /\ animationFrameId' = handleAfter(w, w.animationFrameId)
    /\ draggedElement' = w.draggedElement
    /\ dragOffset' = w.dragOffset
    /\ style' = w.style
    /\ classes' = w.classes
    /\ hole' = w.hole
    /\ page' = w.page
    /\ bodies' = w.bodies
    /\ bounced' = w.bounced
    /\ mousedownListeners' = w.mousedownListeners
    /\ docListeners' = w.docListeners
    /\ rafQueue' = [i \in DOMAIN w.rafQueue |-> [w.rafQueue[i] EXCEPT !.id = i]]
    /\ clock' = w.clock
    /\ viewport' = w.viewport
    /\ attached' = w.attached
    /\ fixedHasOffsetParent' = w.fixedHasOffsetParent
    /\ dom' = w.dom
    /\ raised' = w.raised
    /\ phase' = w.phase
    /\ stopRequested' = w.stopRequested
    /\ UNCHANGED <<probe, accountVars, loadVars>>

\* window.getComputedStyle(elem).position / .zIndex: the inline value, or the
\* style sheet's default
computedPosition(w, e) ==
    IF w.style[e].position # "" THEN w.style[e].position ELSE "static"
computedZIndex(w, e) ==
    IF w.style[e].zIndex # "" THEN w.style[e].zIndex ELSE "auto"

\* elem.offsetParent !== null.  CSSOM gives null for an element out of the
\* document and for one whose computed position is fixed; some browsers give
\* <body> for a fixed element (fixedHasOffsetParent).
offsetParent(w, e) ==
    /\ w.attached[e]
    /\ (computedPosition(w, e) = "fixed" => w.fixedHasOffsetParent)

parentElement(w, e) == w.attached[e]

\* elem.getBoundingClientRect(): left, top in 1/100 px, width, height in px;
\* all zero for an element out of the document
getBoundingClientRect(w, e) ==
    LET fixed == /\ w.style[e].position = "fixed"
                 /\ w.style[e].left # << >>
                 /\ w.style[e].top # << >>
    IN IF ~w.attached[e]
       THEN [left |-> 0, top |-> 0, width |-> 0, height |-> 0]
       ELSE [left |-> IF fixed THEN w.style[e].left[1] ELSE LayoutLeft(e),
             top |-> IF fixed THEN w.style[e].top[1] ELSE LayoutTop(e),
             width |-> Width(e), height |-> Height(e)]

\* elem.offsetWidth, elem.offsetHeight (px)
offsetWidth(w, e) == IF w.attached[e] THEN Width(e) ELSE 0
offsetHeight(w, e) == IF w.attached[e] THEN Height(e) ELSE 0

\* requestAnimationFrame(cb): the callback joins the queue, its handle is
\* returned in nextRafId - 1
requestAnimationFrame(w, cb) ==
    [w EXCEPT !.rafQueue = Append(@, [cb EXCEPT !.id = w.nextRafId]),
              !.nextRafId = @ + 1]

cancelAnimationFrame(w, id) ==
    LET keep(cb) == cb.id # id
    IN [w EXCEPT !.rafQueue = SelectSeq(@, keep)]

\* ------------------------------------------------------- BlackHoleMode
RECURSIVE SeqOfSet(_)
SeqOfSet(S) ==
    IF S = {} THEN << >>
    ELSE LET m == CHOOSE x \in S : \A y \in S : x <= y
         IN <<m>> \o SeqOfSet(S \ {m})

\* the elements the selectors find, without duplicates, in document order
getAffectedElements(w) == SeqOfSet({e \in Elems : offsetParent(w, e)})

IndexOf(s, x) == CHOOSE i \in DOMAIN s : s[i] = x

finalizeBlackHoleAnimation(w) ==
    [w EXCEPT
       !.style = [e \in Elems |->
                    IF e \in Range(w.affectedElements) /\ offsetParent(w, e)
                    THEN [@[e] EXCEPT !.opacity = <<0>>,
                                      !.pointerEvents = "none"]
                    ELSE @[e]],
       !.phase = "complete"]

\* speed with the acceleration over time turned into a deceleration
suckSpeedSlowing(elapsed, distance) ==
    ((5600 - 3 * Min(elapsed, 1800)) * (600 + 5 * Max(0, 600 - distance)))
       \div 4200

\* baseSpeed * (1 + proximityFactor * 5) in 1/100 px, elapsed ms after the
\* start (progress = elapsed / suckDuration) and distance px from the centre
suckSpeed(elapsed, distance) ==
    ((5600 + 3 * elapsed) * (600 + 5 * Max(0, 600 - distance))) \div 4200

\* scale in 1/100
suckScale(distance) == Max(1, 100 - Div(Min(distance, 500) * 100, 400))

\* opacity without the two Math.max(0, ...) of the fade factors
suckOpacityUnclamped(elapsed, distance) ==
    IF elapsed * 10 < 8 * suckDuration
    THEN Div((400 - distance) * (7000 - 3 * elapsed), 2800)
    ELSE 0

\* the opacity a frame writes, in 1/1000: fadeDistance * fadeTime while
\* progress < 0.8, '0' from then on
suckOpacity(elapsed, distance) ==
    IF elapsed * 10 < 8 * suckDuration
    THEN Max(0, (Max(0, 400 - distance) * Max(0, 7000 - 3 * elapsed))
                  \div 2800)
    ELSE 0

\* the page loaded and the one controller of the other specifications made
LoadDone ==
    /\ readyState = "complete"
    /\ domContentLoaded = TRUE
    /\ scriptEvaluated = TRUE
    /\ loadListeners = 1
    /\ controllers = <<[attached |-> TRUE, isActive |-> FALSE, loops |-> 0]>>
    /\ clicks = 0
    /\ toggledByClick = 0

\* no frame computation under observation
NoProbe == [done |-> FALSE, e1 |-> 0, e2 |-> 0, d1 |-> 0, d2 |-> 0,
            opacity |-> 0, scale1 |-> 0, scale2 |-> 0,
            speed1 |-> 0, speed2 |-> 0]

\* what one suction frame writes to element e, the index-th (from 0) of
\* affectedElements, elapsed ms after the start
suckElement(w, e, index, elapsed) ==
    LET rect == getBoundingClientRect(w, e)
        cx == rect.left + rect.width * 50
        cy == rect.top + rect.height * 50
        dx == w.blackHoleCenter.x - cx
        dy == w.blackHoleCenter.y - cy
        dxPx == Div(dx, 100)
        dyPx == Div(dy, 100)
        distance == sqrt(dxPx * dxPx + dyPx * dyPx)
        speed == suckSpeed(elapsed, distance)
        \* Math.atan2(0, 0) is 0: cos 1, sin 0
        velocityX == IF distance = 0 THEN speed ELSE Div(dxPx * speed, distance)
        velocityY == IF distance = 0 THEN 0 ELSE Div(dyPx * speed, distance)
        newX == cx + velocityX
        newY == cy + velocityY
        \* in 1/12 degree
        rotation == (index * 240 + w.clock) % 4320
        scale == suckScale(distance)
        opacity == suckOpacity(elapsed, distance)
    IN IF elapsed * 10 < 8 * suckDuration
       THEN [w.style[e] EXCEPT
               !.position = "fixed",
               !.left = <<newX - rect.width * 50>>,
               !.top = <<newY - rect.height * 50>>,
               !.zIndex = "205",
               !.opacity = <<opacity>>,
               !.transform = <<rotation, scale>>]
       ELSE [w.style[e] EXCEPT !.opacity = <<opacity>>,
                               !.pointerEvents = "none"]

\* progress that stays below 1
progressNeverDone(elapsed) == Min(999, (elapsed * 1000) \div suckDuration)

\* Math.min(1, elapsed / suckDuration), in 1/1000
progress(elapsed) == Min(1000, (elapsed * 1000) \div suckDuration)

\* the frame callback of startSuckingAnimation, started at startTime
animate(w, startTime) ==
    LET elapsed == w.clock - startTime
        \* 100 + progress * 300, in px
        holeRadius == 100 + (3 * Min(elapsed, suckDuration)) \div 35
        touched == {e \in Range(w.affectedElements) :
                      offsetParent(w, e) /\ e \in DOMAIN w.elementStates}
        w1 == [w EXCEPT
                 !.hole = [width |-> <<holeRadius * 2>>,
                           height |-> <<holeRadius * 2>>,
                           marginLeft |-> <<-holeRadius>>,
                           marginTop |-> <<-holeRadius>>],
                 !.style = [e \in Elems |->
                              IF e \in touched
                              THEN suckElement(w, e,
                                     IndexOf(w.affectedElements, e) - 1, elapsed)
                              ELSE @[e]],
                 !.classes = [e \in Elems |->
                                IF e \in touched /\ elapsed * 10 < 8 * suckDuration
                                THEN @[e] \cup {"black-hole-active"}
                                ELSE @[e]]]
    IN IF progress(elapsed) < 1000
       THEN LET w2 == requestAnimationFrame(w1,
                        [id |-> 0, kind |-> "suck", startTime |-> startTime])
            IN [w2 EXCEPT !.animationFrameId = w2.nextRafId - 1]
       ELSE finalizeBlackHoleAnimation(w1)

startSuckingAnimation(w) == animate([w EXCEPT !.phase = "running"], w.clock)

\* the element's style values activateBlackHole stores
originalState(w, e) ==
    [position |-> computedPosition(w, e),
     left |-> w.style[e].left,
     top |-> w.style[e].top,
     transform |-> w.style[e].transform,
     zIndex |-> computedZIndex(w, e),
     cursor |-> w.style[e].cursor]

\* the store filled without the elementStates.has test
saveOriginalStatesAgain(w, found) ==
    [e \in DOMAIN w.elementStates \cup Range(found) |->
       IF e \in Range(found) THEN originalState(w, e) ELSE w.elementStates[e]]

\* "Save original positions and styles": the store after the loop over the
\* elements found
saveOriginalStates(w, found) ==
    [e \in DOMAIN w.elementStates \cup Range(found) |->
       IF e \in DOMAIN w.elementStates THEN w.elementStates[e]
       ELSE originalState(w, e)]

\* container and powerBtn are used without a test: on a page without them the
\* call ends there with a TypeError
activateBlackHole(w) ==
    LET w0 == [w EXCEPT !.isActive = TRUE]
        w1 == [w0 EXCEPT !.page.containerActive = TRUE]
        found == getAffectedElements(w1)
        w2 == [w1 EXCEPT
                 !.affectedElements = found,
                 !.elementStates = saveOriginalStates(w1, found),
                 !.page.canvasActive = TRUE]
        w3 == startSuckingAnimation(w2)
    IN IF ~w.dom.container THEN [w0 EXCEPT !.raised = TRUE]
       ELSE IF ~w.dom.trigger THEN [w3 EXCEPT !.raised = TRUE]
       ELSE [w3 EXCEPT !.page.powerBtnZIndex = "210",
                       !.page.powerBtnPosition = "fixed"]

deactivateBlackHole(w) ==
    LET w0 == [w EXCEPT !.isActive = FALSE,
                        !.stopRequested =
                           \E i \in DOMAIN w.rafQueue :
                               w.rafQueue[i].kind = "float"]
        w1 == [w0 EXCEPT !.page.containerActive = FALSE]
        w2 == IF w1.animationFrameId # 0
              THEN cancelAnimationFrame(w1, w1.animationFrameId)
              ELSE w1
    IN IF ~w.dom.container THEN [w0 EXCEPT !.raised = TRUE]
       ELSE
       [w2 EXCEPT
          !.hole = [width |-> <<200>>, height |-> <<200>>,
                    marginLeft |-> <<-100>>, marginTop |-> <<-100>>],
          !.style = [e \in Elems |->
                       IF e \in DOMAIN w2.elementStates /\ parentElement(w2, e)
                       THEN EmptyStyle
                       ELSE @[e]],
          !.classes = [e \in Elems |->
                         IF e \in DOMAIN w2.elementStates /\ parentElement(w2, e)
                         THEN @[e] \ {"floating-item", "black-hole-active"}
                         ELSE @[e]],
          !.page.canvasActive = FALSE,
          !.page.topbarActive = FALSE,
          !.floatingElements = << >>,
          !.affectedElements = << >>,
          !.elementStates = << >>,
          !.phase = "idle"]

toggleBlackHole(w) ==
    IF ~w.isActive THEN activateBlackHole(w) ELSE deactivateBlackHole(w)

\* bounce with the far edge's reset forgetting the element's half extent
bounceToEdge(pos, vel, half, inner) ==
    LET lo == pos - half < 0
        pos1 == IF lo THEN half ELSE pos
        vel1 == IF lo THEN Abs(vel) ELSE vel
        hi == pos1 + half > inner
    IN [pos |-> IF hi THEN inner ELSE pos1,
        vel |-> IF hi THEN -Abs(vel1) ELSE vel1,
        lo |-> lo, hi |-> hi]

\* "Bounce off edges" on one axis: the position pos and velocity vel of a body
\* of half extent half in a viewport of extent inner; lo and hi tell which
\* edge it was put back to
bounce(pos, vel, half, inner) ==
    LET lo == pos - half < 0
        pos1 == IF lo THEN half ELSE pos
        vel1 == IF lo THEN Abs(vel) ELSE vel
        hi == pos1 + half > inner
    IN [pos |-> IF hi THEN inner - half ELSE pos1,
        vel |-> IF hi THEN -Abs(vel1) ELSE vel1,
        lo |-> lo, hi |-> hi]

\* the velocity passed on as it is
keepVelocity(vx, vy) == [vx |-> vx, vy |-> vy]

\* "Limit velocity": a velocity (1/100 px per tick) faster than maxVelocity is
\* scaled down to it
limitVelocity(vx, vy) ==
    LET speed == sqrt(vx * vx + vy * vy)
        fast == vx * vx + vy * vy > (maxVelocity * 100) * (maxVelocity * 100)
    IN [vx |-> IF fast THEN Div(vx * maxVelocity * 100, speed) ELSE vx,
        vy |-> IF fast THEN Div(vy * maxVelocity * 100, speed) ELSE vy]

\* one body's step of animateFloatingElements, with the two Math.random()
\* draws already turned into the perturbations jx, jy (1/100 px)
floatStep(w, b, jx, jy) ==
    LET floatData == w.bodies[b]
        elem == floatData.element
        rect == getBoundingClientRect(w, elem)
        vx1 == Div(floatData.vx * 98, 100) + jx
        vy1 == Div(floatData.vy * 98, 100) + jy
        vx2 == limitVelocity(vx1, vy1).vx
        vy2 == limitVelocity(vx1, vy1).vy
        bx == bounce(floatData.x + vx2, vx2, rect.width * 50, w.viewport.w * 100)
        by == bounce(floatData.y + vy2, vy2, rect.height * 50, w.viewport.h * 100)
    IN [w EXCEPT
          !.bodies[b] = [@ EXCEPT !.x = bx.pos, !.y = by.pos,
                                  !.vx = bx.vel, !.vy = by.vel],
          !.bounced[b] = [loX |-> bx.lo, hiX |-> bx.hi,
                          loY |-> by.lo, hiY |-> by.hi],
          !.style[elem] = [@ EXCEPT !.left = <<bx.pos - rect.width * 50>>,
                                    !.top = <<by.pos - rect.height * 50>>,
                                    !.transform = <<0, 100>>,
                                    !.zIndex = "206"]]

RECURSIVE floatEach(_, _, _)
floatEach(w, i, J) ==
    IF i > Len(w.floatingElements) THEN w
    ELSE floatEach(floatStep(w, w.floatingElements[i], J[i][1], J[i][2]),
                   i + 1, J)

\* J[i] is the pair of random perturbations drawn for the i-th body
animateFloatingElements(w, J) ==
    LET w1 == floatEach(w, 1, J)
    IN IF w1.isActive
       THEN requestAnimationFrame(w1,
              [id |-> 0, kind |-> "float", startTime |-> 0])
       ELSE w1

RECURSIVE addDragging(_, _)
addDragging(w, i) ==
    IF i > Len(w.floatingElements) THEN w
    ELSE LET b == w.floatingElements[i]
             elem == w.bodies[b].element
         IN addDragging(
              [w EXCEPT !.classes[elem] = @ \cup {"floating-item"},
                        !.style[elem].cursor = "grab",
                        !.mousedownListeners[elem] = Append(@, b)],
              i + 1)

transitionToFloating(w, J) ==
    animateFloatingElements(
        [addDragging(w, 1) EXCEPT !.page.topbarActive = TRUE], J)

\* startDrag(e, floatData) for the body b and a pointer at clientX, clientY;
\* the pair handleMouseMove/handleMouseUp it registers on the document is
\* the entry b of docListeners
startDrag(w, clientX, clientY, b) ==
    IF ~w.isActive THEN w
    ELSE LET elem == w.bodies[b].element
             rect == getBoundingClientRect(w, elem)
         IN [w EXCEPT !.draggedElement = b,
                      !.dragOffset = [x |-> clientX - rect.left,
                                      y |-> clientY - rect.top],
                      !.style[elem].cursor = "grabbing",
                      !.docListeners = Append(@, b)]

handleMouseMove(w, clientX, clientY, b) ==
    LET elem == w.bodies[b].element
        halfW == offsetWidth(w, elem) * 50
        halfH == offsetHeight(w, elem) * 50
        x == clientX - w.dragOffset.x + halfW
        y == clientY - w.dragOffset.y + halfH
    IN [w EXCEPT !.bodies[b] = [@ EXCEPT !.x = x, !.y = y],
                 !.style[elem] = [@ EXCEPT !.left = <<x - halfW>>,
                                           !.top = <<y - halfH>>]]

RemoveFirst(s, x) ==
    LET i == CHOOSE k \in DOMAIN s : s[k] = x /\ \A m \in 1..(k - 1) : s[m] # x
    IN SubSeq(s, 1, i - 1) \o SubSeq(s, i + 1, Len(s))

handleMouseUp(w, b, J) ==
    LET elem == w.bodies[b].element
        w1 == [w EXCEPT !.docListeners = RemoveFirst(@, b),
                        !.style[elem].cursor = "grab",
                        !.draggedElement = 0]
    IN IF w1.isActive THEN animateFloatingElements(w1, J) ELSE w1


\* ------------------------------------------------- discord-accounts.js
\* The calendar days the page is used on; now is the index of the current one.
Days == <<[y |-> 2025, m |-> 12, d |-> 31], [y |-> 2026, m |-> 1, d |-> 1],
          [y |-> 2026, m |-> 1, d |-> 2]>>
Yesterday == [y |-> 2025, m |-> 12, d |-> 30]
Games == {"Minecraft", "Fortnite"}

\* n.toString().padStart(2, '0'), as the two digits
padStart2(n) == <<n \div 10, n % 10>>
\* "YYYY-MM-DD" of a day, as the sequence of its parts
formatDate(t) == <<t.y>> \o padStart2(t.m) \o padStart2(t.d)
getToday(a) == formatDate(Days[a.now])

\* a localStorage item: unset (getItem gives null) or a string
Unset == [set |-> FALSE, value |-> ""]
Item(str) == [set |-> TRUE, value |-> str]
\* the item takenGames holds JSON.stringify({date, game})
UnsetTaken == [set |-> FALSE, date |-> << >>, game |-> ""]
\* JSON.parse(localStorage.getItem('takenGames') || '{}'): a missing date or
\* game is undefined (<< >>, "")
parseTakenGames(a) ==
    IF a.localStorage.takenGames.set
    THEN [date |-> a.localStorage.takenGames.date,
          game |-> a.localStorage.takenGames.game]
    ELSE [date |-> << >>, game |-> ""]

\* String(n) of a small number and parseInt(str, 10); a string that does not
\* start with a number parses to NaN
DecimalStrings == <<"0", "1", "2", "3", "4", "5", "6", "7", "8", "9">>
numberToString(n) == DecimalStrings[n + 1]
parseInt(str) ==
    IF \E i \in DOMAIN DecimalStrings : DecimalStrings[i] = str
    THEN [nan |-> FALSE,
          n |-> (CHOOSE i \in DOMAIN DecimalStrings : DecimalStrings[i] = str) - 1]
    ELSE [nan |-> TRUE, n |-> 0]
\* parseInt(localStorage.getItem('extraAccounts') || '0', 10)
extraAccounts(a) ==
    parseInt(IF a.localStorage.extraAccounts.set
                /\ a.localStorage.extraAccounts.value # ""
             THEN a.localStorage.extraAccounts.value ELSE "0")
\* v > 0 of a number or NaN
Positive(v) == ~v.nan /\ v.n > 0

Accounts ==
    [now |-> now, localStorage |-> localStorage, modal |-> modal,
     granted |-> granted, lastShow |-> lastShow]

hasTakenGameToday(a) == parseTakenGames(a).date = getToday(a)

getTakenGame(a) == parseTakenGames(a).game

saveGameToday(a, gameName) ==
    [a EXCEPT !.localStorage.takenGames =
                 [set |-> TRUE, date |-> getToday(a), game |-> gameName]]

canTakeGame(a) ==
    parseTakenGames(a).date # getToday(a) \/ Positive(extraAccounts(a))

\* useExtraAccount without the decrement
useExtraAccountFree(a) == a

useExtraAccount(a) ==
    IF Positive(extraAccounts(a))
    THEN [a EXCEPT !.localStorage.extraAccounts =
                      Item(numberToString(extraAccounts(a).n - 1))]
    ELSE a

\* granted counts the setTimeout(fetchAccountData) calls of the day
showAccountModal(a, gameName) ==
    IF ~a.modal.present THEN [a EXCEPT !.lastShow = "ignored"]
    ELSE IF ~canTakeGame(a)
    THEN [a EXCEPT !.modal = [@ EXCEPT !.title = "Limit reached!",
                                       !.message = "error",
                                       !.active = TRUE],
                   !.lastShow = "denied"]
    ELSE LET a1 == IF hasTakenGameToday(a) THEN useExtraAccount(a) ELSE a
             a2 == saveGameToday(a1, gameName)
         IN [a2 EXCEPT !.modal = [@ EXCEPT !.title = gameName,
                                           !.message = "loading",
                                           !.active = TRUE],
                       !.granted = @ + 1,
                       !.lastShow = "granted"]

closeAccountModal(a) ==
    IF a.modal.present THEN [a EXCEPT !.modal.active = FALSE] ELSE a

CommitAccounts(a) ==
    /\ now' = a.now
    /\ localStorage' = a.localStorage
    /\ modal' = a.modal
    /\ granted' = a.granted
    /\ lastShow' = a.lastShow
    /\ UNCHANGED <<pageVars, probe, loadVars>>

\* the account page before its first use
AccountsIdle ==
    /\ now = 1
    /\ localStorage = [takenGames |-> UnsetTaken, extraAccounts |-> Unset]
    /\ modal = [present |-> TRUE, active |-> FALSE, title |-> "",
                message |-> ""]
    /\ granted = 0
    /\ extraAtDayStart = 0
    /\ lastShow = "none"

\* a click on a card's "Get Account" button
ShowAccountModal(gameName) ==
    /\ CommitAccounts(showAccountModal(Accounts, gameName))
    /\ UNCHANGED extraAtDayStart

CloseAccountModal ==
    /\ modal.active
    /\ CommitAccounts([closeAccountModal(Accounts) EXCEPT !.lastShow = "none"])
    /\ UNCHANGED extraAtDayStart

\* midnight passes
NextDay ==
    /\ now < Len(Days)
    /\ CommitAccounts([Accounts EXCEPT !.now = @ + 1, !.granted = 0,
                                       !.lastShow = "none"])
    /\ extraAtDayStart' = IF Positive(extraAccounts(Accounts))
                          THEN extraAccounts(Accounts).n ELSE 0

\* ------------------------------------------------------------- actions
\* the controller and the page after the constructor
InitController ==
    /\ isActive = FALSE
    /\ affectedElements = << >>
    /\ elementStates = << >>
    /\ viewport = [w |-> 800, h |-> 600]
    /\ blackHoleCenter = [x |-> 40000, y |-> 30000]
    /\ floatingElements = << >>
    /\ animationFrameId = 0
    /\ draggedElement = 0
    /\ dragOffset = [x |-> 0, y |-> 0]
    /\ style = InitialStyle
    /\ classes = [e \in Elems |-> {}]
    /\ hole = [width |-> << >>, height |-> << >>,
               marginLeft |-> << >>, marginTop |-> << >>]
    /\ page = [containerActive |-> FALSE, canvasActive |-> FALSE,
               topbarActive |-> FALSE, powerBtnZIndex |-> "",
               powerBtnPosition |-> ""]
    /\ bodies = << >>
    /\ bounced = << >>
    /\ mousedownListeners = [e \in Elems |-> << >>]
    /\ docListeners = << >>
    /\ rafQueue = << >>
    /\ clock = 0
    /\ attached = [e \in Elems |-> TRUE]
    /\ fixedHasOffsetParent \in BOOLEAN
    /\ raised = FALSE
    /\ phase = "idle"
    /\ stopRequested = FALSE
    /\ activations = 0
    /\ pageEvents = 0
    /\ mouseEvents = 0
    /\ lastOp = "init"

\* the page has the trigger control and the container
FullPage == [trigger |-> TRUE, container |-> TRUE]

Init ==
    /\ InitController
    /\ dom = FullPage
    /\ probe = NoProbe
    /\ AccountsIdle
    /\ LoadDone

\* a click on the trigger control
Toggle ==
    /\ dom.trigger
    /\ ~isActive => activations < MaxActivations /\ Len(rafQueue) < MaxPending
    /\ Commit(toggleBlackHole(World))
    /\ activations' = IF isActive THEN activations ELSE activations + 1
    /\ UNCHANGED <<pageEvents, mouseEvents>>
    /\ lastOp' = IF isActive THEN "deactivate" ELSE "activate"

\* a direct call of activateBlackHole()
Activate ==
    /\ activations < MaxActivations
    /\ Len(rafQueue) < MaxPending
    /\ Commit(activateBlackHole(World))
    /\ activations' = activations + 1
    /\ lastOp' = "activate"
    /\ UNCHANGED <<pageEvents, mouseEvents>>

\* a direct call of deactivateBlackHole()
Deactivate ==
    /\ Commit(deactivateBlackHole(World))
    /\ lastOp' = "deactivate"
    /\ UNCHANGED <<activations, pageEvents, mouseEvents>>

Callback(w, cb, J) ==
    IF cb.kind = "suck" THEN animate(w, cb.startTime)
    ELSE animateFloatingElements(w, J)

RECURSIVE runCallbacks(_, _, _)
runCallbacks(w, cbs, J) ==
    IF cbs = << >> THEN w
    ELSE runCallbacks(Callback(w, Head(cbs), J), Tail(cbs), J)

\* the Math.random() draws of one tick over n bodies
DrawsFor(n) == {[i \in 1..n |-> p] : p \in JitterPairs}
Draws == DrawsFor(Len(floatingElements))

\* the browser's next display frame, dt ms later: every callback requested
\* before the frame runs, in the order of the requests
RunFrame(dt, J) ==
    /\ clock + dt <= MaxClock
    /\ rafQueue # << >>
    /\ Commit(runCallbacks([World EXCEPT !.clock = clock + dt,
                                         !.rafQueue = << >>,
                                         !.stopRequested = FALSE],
                            rafQueue, J))
    /\ lastOp' = IF rafQueue[Len(rafQueue)].kind = "float" THEN "tick" ELSE "other"
    /\ UNCHANGED <<activations, pageEvents, mouseEvents>>

\* a resize that leaves the focal point where it was
ResizeKeepingCenter(v) ==
    /\ v # viewport
    /\ pageEvents < MaxPageEvents
    /\ Commit([World EXCEPT !.viewport = v])
    /\ pageEvents' = pageEvents + 1
    /\ lastOp' = "other"
    /\ UNCHANGED <<activations, mouseEvents>>

\* the window is resized; init() has registered its resize listener only if
\* it found the trigger control
Resize(v) ==
    /\ v # viewport
    /\ pageEvents < MaxPageEvents
    /\ Commit([World EXCEPT !.viewport = v,
                            !.blackHoleCenter =
                               IF dom.trigger
                               THEN [x |-> v.w * 50, y |-> v.h * 50]
                               ELSE @])
    /\ pageEvents' = pageEvents + 1
    /\ lastOp' = "other"
    /\ UNCHANGED <<activations, mouseEvents>>

\* the page takes an element out of the document
RemoveElement(e) ==
    /\ attached[e]
    /\ pageEvents < MaxPageEvents
    /\ Commit([World EXCEPT !.attached[e] = FALSE])
    /\ pageEvents' = pageEvents + 1
    /\ lastOp' = "other"
    /\ UNCHANGED <<activations, mouseEvents>>

\* The caller's handoff after the suction phase: a FloatBody for every
\* affected element at its last suction-phase place, at rest, and then
\* transitionToFloating().  No code of the repository does this.
newBodies(w) ==
    [i \in 1..Len(w.affectedElements) |->
       LET e == w.affectedElements[i]
           rect == getBoundingClientRect(w, e)
       IN [element |-> e, x |-> rect.left + rect.width * 50,
           y |-> rect.top + rect.height * 50, vx |-> 0, vy |-> 0]]

HandOff(J) ==
    /\ isActive
    /\ phase = "complete"
    /\ floatingElements = << >>
    /\ affectedElements # << >>
    /\ Len(rafQueue) < MaxPending
    /\ LET made == newBodies(World)
           w1 == [World EXCEPT
                    !.bodies = @ \o made,
                    !.bounced = @ \o [i \in 1..Len(made) |->
                                       [loX |-> FALSE, hiX |-> FALSE,
                                        loY |-> FALSE, hiY |-> FALSE]],
                    !.floatingElements =
                       [i \in 1..Len(made) |-> Len(bodies) + i]]
       IN Commit(transitionToFloating(w1, J))
    /\ lastOp' = "tick"
    /\ UNCHANGED <<activations, pageEvents, mouseEvents>>

RECURSIVE dispatchMouseDown(_, _, _, _)
dispatchMouseDown(w, listeners, clientX, clientY) ==
    IF listeners = << >> THEN w
    ELSE dispatchMouseDown(startDrag(w, clientX, clientY, Head(listeners)),
                           Tail(listeners), clientX, clientY)

\* a mouse button goes down over element e, at its corner (g = 0) or its
\* middle (g = 1)
MouseDown(e, g) ==
    /\ attached[e]
    /\ style[e].pointerEvents # "none"
    /\ mousedownListeners[e] # << >>
    /\ mouseEvents < MaxMouseEvents
    /\ LET rect == getBoundingClientRect(World, e)
       IN Commit(dispatchMouseDown(World, mousedownListeners[e],
                                   rect.left + g * rect.width * 50,
                                   rect.top + g * rect.height * 50))
    /\ lastOp' = "other"
    /\ mouseEvents' = mouseEvents + 1
    /\ UNCHANGED <<activations, pageEvents>>

RECURSIVE dispatchMouseMove(_, _, _)
dispatchMouseMove(w, listeners, p) ==
    IF listeners = << >> THEN w
    ELSE dispatchMouseMove(handleMouseMove(w, p.x, p.y, Head(listeners)),
                           Tail(listeners), p)

MouseMove(p) ==
    /\ docListeners # << >>
    /\ mouseEvents < MaxMouseEvents
    /\ Commit(dispatchMouseMove(World, docListeners, p))
    /\ lastOp' = "other"
    /\ mouseEvents' = mouseEvents + 1
    /\ UNCHANGED <<activations, pageEvents>>

RECURSIVE dispatchMouseUp(_, _, _)
dispatchMouseUp(w, listeners, J) ==
    IF listeners = << >> THEN w
    ELSE dispatchMouseUp(handleMouseUp(w, Head(listeners), J),
                         Tail(listeners), J)

MouseUp(J) ==
    /\ docListeners # << >>
    /\ mouseEvents < MaxMouseEvents
    /\ Len(rafQueue) + Len(docListeners) <= MaxPending
    /\ Commit(dispatchMouseUp(World, docListeners, J))
    /\ lastOp' = IF isActive THEN "tick" ELSE "other"
    /\ mouseEvents' = mouseEvents + 1
    /\ UNCHANGED <<activations, pageEvents>>

Next ==
    \/ Toggle
    \/ Activate
    \/ Deactivate
    \/ \E dt \in FrameDts, J \in Draws : RunFrame(dt, J)
    \/ \E v \in ViewportSizes : Resize(v)
    \/ \E e \in Elems : RemoveElement(e)
    \/ \E J \in DrawsFor(Len(affectedElements)) : HandOff(J)
    \/ \E e \in Elems, g \in GrabPoints : MouseDown(e, g)
    \/ \E p \in PointerPositions : MouseMove(p)
    \/ \E J \in Draws : MouseUp(J)

\* ------------------------------------------------------ the float phase
\* The float simulator on its own: the mode is active, the suction phase is
\* over and the one element that was visible at activation has been handed
\* over as a FloatBody.  The body starts anywhere a drag, a resize or earlier
\* ticks may have left it: outside the viewport, next to an edge, at rest or
\* near the speed limit.
FloatVXs == {-400, 0, 390}
FloatVYs == {-30, 300}
floatingStyle(e, x, y) ==
    [position |-> "fixed", left |-> <<x - Width(e) * 50>>,
     top |-> <<y - Height(e) * 50>>, transform |-> <<0, 100>>,
     zIndex |-> "206", cursor |-> "grab", opacity |-> <<0>>,
     pointerEvents |-> ""]

InitFloat ==
    \E e \in Elems, v \in ViewportSizes :
      \E x \in {-1000, Width(e) * 50 + 10, v.w * 100 - Width(e) * 50 - 10,
                v.w * 100 + 1000},
         y \in {Height(e) * 50 + 10, v.h * 100 - Height(e) * 50 - 10},
         vx \in FloatVXs, vy \in FloatVYs :
        /\ isActive = TRUE
        /\ affectedElements = <<e>>
        /\ elementStates =
              [t \in {e} |-> [position |-> computedPosition([style |-> InitialStyle], e),
                              left |-> InitialStyle[e].left,
                              top |-> InitialStyle[e].top,
                              transform |-> InitialStyle[e].transform,
                              zIndex |-> computedZIndex([style |-> InitialStyle], e),
                              cursor |-> InitialStyle[e].cursor]]
        /\ viewport = v
        /\ blackHoleCenter = [x |-> v.w * 50, y |-> v.h * 50]
        /\ floatingElements = <<1>>
        /\ animationFrameId = Stale
        /\ draggedElement = 0
        /\ dragOffset = [x |-> 0, y |-> 0]
        /\ style = [t \in Elems |-> IF t = e THEN floatingStyle(e, x, y)
                                    ELSE InitialStyle[t]]
        /\ classes = [t \in Elems |-> IF t = e
                                      THEN {"black-hole-active", "floating-item"}
                                      ELSE {}]
        /\ hole = [width |-> <<800>>, height |-> <<800>>,
                   marginLeft |-> <<-400>>, marginTop |-> <<-400>>]
        /\ page = [containerActive |-> TRUE, canvasActive |-> TRUE,
                   topbarActive |-> TRUE, powerBtnZIndex |-> "210",
                   powerBtnPosition |-> "fixed"]
        /\ bodies = <<[element |-> e, x |-> x, y |-> y, vx |-> vx, vy |-> vy]>>
        /\ bounced = <<[loX |-> FALSE, hiX |-> FALSE, loY |-> FALSE, hiY |-> FALSE]>>
        /\ mousedownListeners = [t \in Elems |-> IF t = e THEN <<1>> ELSE << >>]
        /\ docListeners = << >>
        /\ rafQueue = <<[id |-> 1, kind |-> "float", startTime |-> 0]>>
        /\ clock = 0
        /\ attached = [t \in Elems |-> t = e]
        /\ fixedHasOffsetParent = FALSE
        /\ dom = FullPage
        /\ raised = FALSE
        /\ probe = NoProbe
        /\ AccountsIdle
        /\ LoadDone
        /\ phase = "complete"
        /\ stopRequested = FALSE
        /\ activations = 1
        /\ pageEvents = 0
        /\ mouseEvents = 0
        /\ lastOp = "other"

NextFloat == \E dt \in FrameDts, J \in Draws : RunFrame(dt, J)

SpecFloat == InitFloat /\ [][NextFloat]_vars

\* ------------------------------------------------ pages of any make
\* The controller on a page that may lack the trigger control or the
\* container, through the suction phase.
Pages == [trigger : BOOLEAN, container : BOOLEAN]

InitPage ==
    /\ InitController
    /\ dom \in Pages
    /\ probe = NoProbe
    /\ AccountsIdle
    /\ LoadDone

NextPage ==
    \/ Toggle
    \/ Activate
    \/ Deactivate
    \/ \E dt \in FrameDts, J \in Draws : RunFrame(dt, J)
    \/ \E v \in ViewportSizes : Resize(v)

SpecPage == InitPage /\ [][NextPage]_vars

\* ------------------------------------------- the script's initialization
Load ==
    [readyState |-> readyState, domContentLoaded |-> domContentLoaded,
     scriptEvaluated |-> scriptEvaluated, loadListeners |-> loadListeners,
     controllers |-> controllers, toggledByClick |-> toggledByClick,
     trigger |-> dom.trigger]

\* new BlackHoleMode(): the constructor and init(), which attaches the click
\* listener if the page has the trigger
newBlackHoleMode(l) ==
    [l EXCEPT !.controllers =
                 Append(@, [attached |-> l.trigger, isActive |-> FALSE,
                            loops |-> 0])]

\* the end of the script: a DOMContentLoaded listener that constructs a
\* controller, and then a second one if the document is loading, a
\* constructed controller otherwise
moduleInitialization(l) ==
    LET l1 == [l EXCEPT !.scriptEvaluated = TRUE, !.loadListeners = @ + 1]
    IN IF l1.readyState = "loading"
       THEN [l1 EXCEPT !.loadListeners = @ + 1]
       ELSE newBlackHoleMode(l1)

RECURSIVE runLoadListeners(_, _)
runLoadListeners(l, n) ==
    IF n = 0 THEN l ELSE runLoadListeners(newBlackHoleMode(l), n - 1)

\* a controller's click listener: toggleBlackHole, as far as the mode flag
\* and the suction loop it starts or cancels
toggleController(c) ==
    IF ~c.isActive THEN [c EXCEPT !.isActive = TRUE, !.loops = 1]
    ELSE [c EXCEPT !.isActive = FALSE, !.loops = 0]

clickTrigger(l) ==
    [l EXCEPT !.controllers =
                 [i \in DOMAIN @ |-> IF @[i].attached
                                     THEN toggleController(@[i]) ELSE @[i]],
              !.toggledByClick =
                 Cardinality({i \in DOMAIN l.controllers :
                                l.controllers[i].attached})]

CommitLoad(l) ==
    /\ readyState' = l.readyState
    /\ domContentLoaded' = l.domContentLoaded
    /\ scriptEvaluated' = l.scriptEvaluated
    /\ loadListeners' = l.loadListeners
    /\ controllers' = l.controllers
    /\ toggledByClick' = l.toggledByClick
    /\ UNCHANGED <<pageVars, probe, accountVars>>

\* the browser evaluates the script, at whatever stage of the page load
EvaluateScript ==
    /\ ~scriptEvaluated
    /\ CommitLoad(moduleInitialization(Load))
    /\ UNCHANGED clicks

\* the document has been parsed
BecomeInteractive ==
    /\ readyState = "loading"
    /\ CommitLoad([Load EXCEPT !.readyState = "interactive"])
    /\ UNCHANGED clicks

\* the DOMContentLoaded event: every listener registered so far runs
DOMContentLoaded ==
    /\ readyState = "interactive"
    /\ ~domContentLoaded
    /\ CommitLoad(runLoadListeners([Load EXCEPT !.domContentLoaded = TRUE],
                                   loadListeners))
    /\ UNCHANGED clicks

\* the page and its resources have loaded
BecomeComplete ==
    /\ readyState = "interactive"
    /\ domContentLoaded
    /\ CommitLoad([Load EXCEPT !.readyState = "complete"])
    /\ UNCHANGED clicks

\* a click on the trigger control
ClickTrigger ==
    /\ dom.trigger
    /\ clicks < MaxClicks
    /\ CommitLoad(clickTrigger(Load))
    /\ clicks' = clicks + 1

InitLoad ==
    /\ InitController
    /\ dom \in {p \in Pages : p.container}
    /\ probe = NoProbe
    /\ AccountsIdle
    /\ readyState = "loading"
    /\ domContentLoaded = FALSE
    /\ scriptEvaluated = FALSE
    /\ loadListeners = 0
    /\ controllers = << >>
    /\ clicks = 0
    /\ toggledByClick = 0

NextLoad ==
    \/ EvaluateScript
    \/ BecomeInteractive
    \/ DOMContentLoaded
    \/ BecomeComplete
    \/ ClickTrigger

SpecLoad == InitLoad /\ [][NextLoad]_vars

\* ------------------------------------------------ the suction loop
\* The mode switched by the trigger alone, with the browser running a display
\* frame whenever a callback is pending.  The mode is switched on only while
\* the clock leaves room for a whole suction phase.
RoomForSuction ==
    \E dt \in FrameDts : clock + suckDuration + dt <= MaxClock

NextLoop ==
    \/ (isActive \/ RoomForSuction) /\ Toggle
    \/ \E dt \in FrameDts, J \in Draws : RunFrame(dt, J)
    \/ \E v \in ViewportSizes : Resize(v)

\* what a display frame does to the clock: the steps of NextLoop that
\* advance the clock are its frames, and a frame can run when FrameTick can
FrameTick ==
    /\ rafQueue # << >>
    /\ \E dt \in FrameDts : clock + dt <= MaxClock /\ clock' = clock + dt

\* the browser keeps running display frames while callbacks are pending
SpecLoop ==
    /\ Init
    /\ [][NextLoop]_vars
    /\ WF_clock(FrameTick)

\* ------------------------------------------- one element in one frame
\* What a suction frame computes for an element, for inputs over the whole
\* range: two times since the start (ms) and two distances from the centre
\* (px).
Elapseds == {0, 700, 1400, 2100, 2799, 2800, 3150, 3500}
Distances == {0, 100, 399, 400, 450, 500, 600, 900}

InitFrameMath ==
    /\ InitController
    /\ dom = FullPage
    /\ AccountsIdle
    /\ LoadDone
    /\ \E e1 \in Elapseds, e2 \in Elapseds, d1 \in Distances, d2 \in Distances :
          probe = [NoProbe EXCEPT !.e1 = e1, !.e2 = e2, !.d1 = d1, !.d2 = d2]

\* the frame's arithmetic on the inputs of probe
ComputeFrame ==
    /\ ~probe.done
    /\ probe' = [probe EXCEPT
                   !.done = TRUE,
                   !.opacity = suckOpacity(probe.e1, probe.d1),
                   !.scale1 = suckScale(probe.d1),
                   !.scale2 = suckScale(probe.d2),
                   !.speed1 = suckSpeed(probe.e1, probe.d1),
                   !.speed2 = suckSpeed(probe.e2, probe.d1)]
    /\ UNCHANGED <<pageVars, accountVars, loadVars>>

SpecFrameMath == InitFrameMath /\ [][ComputeFrame]_vars

\* --------------------------------------------------- the account page
InitAccounts ==
    /\ InitController
    /\ dom = FullPage
    /\ probe = NoProbe
    /\ LoadDone
    /\ now = 1
    /\ \E taken \in {UnsetTaken} \cup
                    {[set |-> TRUE, date |-> formatDate(Yesterday), game |-> g] :
                       g \in Games},
          extra \in {Unset, Item("abc")} \cup {Item(numberToString(n)) : n \in 0..MaxExtra} :
          /\ localStorage = [takenGames |-> taken, extraAccounts |-> extra]
          /\ extraAtDayStart = IF Positive(parseInt(extra.value))
                               THEN parseInt(extra.value).n ELSE 0
    /\ modal \in {[present |-> p, active |-> FALSE, title |-> "", message |-> ""] :
                   p \in BOOLEAN}
    /\ granted = 0
    /\ lastShow = "none"

NextAccounts ==
    \/ \E g \in Games : ShowAccountModal(g)
    \/ CloseAccountModal
    \/ NextDay

SpecAccounts == InitAccounts /\ [][NextAccounts]_vars

\* ---------------------------------------------------------------- claims

\* the six restored style properties of element e equal their values before
\* the first activation
Restored(e) ==
    /\ style[e].position = InitialStyle[e].position
    /\ style[e].left = InitialStyle[e].left
    /\ style[e].top = InitialStyle[e].top
    /\ style[e].transform = InitialStyle[e].transform
    /\ style[e].zIndex = InitialStyle[e].zIndex
    /\ style[e].cursor = InitialStyle[e].cursor

\* C1: when deactivateBlackHole has returned, every element still in the
\* document has its position, left, top, transform, zIndex and cursor equal to
\* the values from before the first activation.
C1_RestoreExact ==
    lastOp = "deactivate" => \A e \in Elems : attached[e] => Restored(e)

\* C2: activateBlackHole called while active, and deactivateBlackHole called
\* while inactive, change no controller state, no element or black-hole
\* style, and the set of pending frame callbacks.
C2_ReentrantNoOp ==
    [][((lastOp' = "activate" /\ isActive) \/ (lastOp' = "deactivate" /\ ~isActive))
         => UNCHANGED <<isActive, affectedElements, elementStates,
                        floatingElements, animationFrameId, draggedElement,
                        dragOffset, style, classes, hole, rafQueue>>]_vars

SuctionPending == \E i \in DOMAIN rafQueue : rafQueue[i].kind = "suck"

\* C3: when deactivateBlackHole has returned, elementStates is empty,
\* floatingElements is empty and no frame callback of a suction loop is
\* pending.
C3_CleanAfterDeactivate ==
    lastOp = "deactivate" =>
        /\ DOMAIN elementStates = {}
        /\ floatingElements = << >>
        /\ ~SuctionPending

\* C4: a display frame that runs while the mode is inactive writes no element
\* style, no black-hole size and no FloatBody.
C4_InactiveFrameWritesNothing ==
    [][(clock' # clock /\ ~isActive) => UNCHANGED <<style, hole, bodies>>]_vars

\* C5: once the suction phase is complete and the mode is active, every target
\* element still in the document has opacity 0 and pointer-events none.
C5_HiddenOnCompletion ==
    (phase = "complete" /\ isActive) =>
        \A e \in Range(affectedElements) :
            attached[e] => /\ style[e].opacity = <<0>>
                           /\ style[e].pointerEvents = "none"

FloatPending == \E i \in DOMAIN rafQueue : rafQueue[i].kind = "float"

\* C6: once the suction phase is complete and the mode is active, the
\* controller is floating: there is a FloatBody for every affected element
\* and the float loop runs.
C6_FloatingAfterCompletion ==
    (phase = "complete" /\ isActive) =>
        /\ \A e \in Range(affectedElements) :
              \E i \in DOMAIN floatingElements :
                  bodies[floatingElements[i]].element = e
        /\ FloatPending

\* C7: a display frame leaves the x and y of every FloatBody with an open
\* drag session as they were.
C7_DragExclusive ==
    [][clock' # clock =>
         \A b \in Range(docListeners) \cap Range(floatingElements) :
             /\ bodies'[b].x = bodies[b].x
             /\ bodies'[b].y = bodies[b].y]_vars

\* C8: when deactivateBlackHole has returned, no drag session remains:
\* draggedElement is null and no drag's mousemove/mouseup pair is registered
\* on the document.
C8_NoDragAfterDeactivate ==
    lastOp = "deactivate" => draggedElement = 0 /\ docListeners = << >>

\* C9: at most one mousemove/mouseup listener pair is registered on the
\* document.
C9_OneDragSession == Len(docListeners) <= 1

BoxInside(b) ==
    LET rect == getBoundingClientRect(World, bodies[b].element)
        halfW == rect.width * 50
        halfH == rect.height * 50
    IN /\ bodies[b].x - halfW >= 0
       /\ bodies[b].x + halfW <= viewport.w * 100
       /\ bodies[b].y - halfH >= 0
       /\ bodies[b].y + halfH <= viewport.h * 100
       /\ bounced[b].loX => bodies[b].vx >= 0
       /\ bounced[b].hiX => bodies[b].vx <= 0
       /\ bounced[b].loY => bodies[b].vy >= 0
       /\ bounced[b].hiY => bodies[b].vy <= 0

Fits(b) ==
    LET rect == getBoundingClientRect(World, bodies[b].element)
    IN rect.width <= viewport.w /\ rect.height <= viewport.h

\* C10, as stated: after a tick of animateFloatingElements every FloatBody's
\* box lies inside the viewport, and an axis that was clamped has its
\* velocity pointing back inside, whatever the element and viewport sizes.
C10_BoxInsideAnySize ==
    lastOp = "tick" => \A b \in Range(floatingElements) : BoxInside(b)

\* C10, amended: the same for every FloatBody whose element is no wider and
\* no higher than the viewport.
C10_BoxInsideWhenFits ==
    lastOp = "tick" =>
        \A b \in Range(floatingElements) : Fits(b) => BoxInside(b)

\* a tick has put a body whose element fits the viewport back from an edge
C10_Witness ==
    /\ lastOp = "tick"
    /\ \E b \in Range(floatingElements) :
          /\ Fits(b)
          /\ bounced[b].loX \/ bounced[b].hiX \/ bounced[b].loY \/ bounced[b].hiY

\* C11: a display frame that runs the float callbacks left pending by a
\* deactivateBlackHole call leaves no float callback pending: the float
\* loop stops with the first tick after the deactivation.
C11_FloatLoopStops ==
    [][(clock' # clock /\ stopRequested) => ~FloatPending']_vars

\* C12: an entry of the snapshot store is created only by an activation of
\* the inactive mode, with the element's style values from before that
\* activation, and stays as it is until the store is cleared.
C12_SnapshotPreActivation ==
    [][\A e \in DOMAIN elementStates' :
         IF e \in DOMAIN elementStates
         THEN elementStates'[e] = elementStates[e]
         ELSE /\ ~isActive
              /\ elementStates'[e] = [position |-> computedPosition(World, e),
                                      left |-> style[e].left,
                                      top |-> style[e].top,
                                      transform |-> style[e].transform,
                                      zIndex |-> computedZIndex(World, e),
                                      cursor |-> style[e].cursor]]_vars

\* an activation while active has found a snapshotted element again, with
\* the suction's styles on it, and its entry still holds the page's values
C12_Witness ==
    /\ lastOp = "activate"
    /\ activations = 2
    /\ \E e \in DOMAIN elementStates :
          /\ e \in Range(affectedElements)
          /\ elementStates[e].position = "relative"
          /\ style[e].position = "fixed"

\* C13: on a page without the trigger control or without the container, no
\* operation of the controller raises an error.
C13_NoErrorWhenMissing ==
    (~dom.trigger \/ ~dom.container) => ~raised

\* the centre of element e's box moves, from the state before the step to
\* the state after it, on neither axis away from the point (x, y)
MovesToward(e, x, y) ==
    LET rect == getBoundingClientRect(World, e)
        cx == rect.left + rect.width * 50
        cy == rect.top + rect.height * 50
        nx == style'[e].left[1] + rect.width * 50
        ny == style'[e].top[1] + rect.height * 50
    IN /\ nx > cx => x > cx
       /\ nx < cx => x < cx
       /\ ny > cy => y > cy
       /\ ny < cy => y < cy

\* C14: a frame of the suction loop moves every element it moves toward the
\* centre of the viewport as it is at that frame, also after a resize.
C14_PullsToNewCenter ==
    [][(clock' # clock /\ Len(rafQueue) = 1 /\ rafQueue[1].kind = "suck")
         => \A e \in Elems :
              (style'[e].left # style[e].left \/ style'[e].top # style[e].top)
                 => MovesToward(e, viewport.w * 50, viewport.h * 50)]_vars

\* The suction pulled element 1 toward the old centre, the window was
\* resized, and a later frame has pulled it up, toward the new centre: its
\* centre is higher than on the page and off the straight line from its place
\* on the page to the new centre, on the old centre's side (px).
C14_Witness ==
    LET rect == getBoundingClientRect(World, 1)
        cx == (rect.left + rect.width * 50) \div 100
        cy == (rect.top + rect.height * 50) \div 100
        px == (LayoutLeft(1) + Width(1) * 50) \div 100
        py == (LayoutTop(1) + Height(1) * 50) \div 100
        nx == viewport.w \div 2
        ny == viewport.h \div 2
    IN /\ phase = "running"
       /\ activations = 1
       /\ clock > 0
       /\ viewport = [w |-> 100, h |-> 300]
       /\ style[1].position = "fixed"
       /\ cy < py
       /\ (cx - nx) * (py - ny) - (cy - ny) * (px - nx) > 500

\* the square of a body's speed, in (1/100 px per tick)^2
SpeedSquared(b) == bodies[b].vx * bodies[b].vx + bodies[b].vy * bodies[b].vy

\* C15: after a tick of the float loop every FloatBody's speed is at most 4 px
\* per tick, up to the rounding of the square root (1/100 px).
C15_SpeedLimit ==
    lastOp = "tick" =>
        \A b \in Range(floatingElements) :
            SpeedSquared(b) <= (maxVelocity * 100 + 1) * (maxVelocity * 100 + 1)

\* a tick has scaled a body down to the limit and bounced it off an edge
C15_Witness ==
    /\ lastOp = "tick"
    /\ \E b \in Range(floatingElements) :
          /\ bounced[b].hiX \/ bounced[b].loX \/ bounced[b].hiY \/ bounced[b].loY
          /\ SpeedSquared(b) >= (maxVelocity * 100 - 1) * (maxVelocity * 100 - 1)

\* C16: the opacity a suction frame writes lies between 0 and 1 (0..1000 in
\* 1/1000), and is exactly 0 once progress has reached 0.8.
C16_OpacityBounds ==
    probe.done =>
        /\ probe.opacity >= 0
        /\ probe.opacity <= 1000
        /\ (probe.e1 * 10 >= 8 * suckDuration => probe.opacity = 0)

\* a frame before progress 0.8 for an element farther than 400 px from the
\* centre, where the distance factor would be negative without its clamp
C16_Witness ==
    /\ probe.done
    /\ probe.e1 * 10 < 8 * suckDuration
    /\ probe.d1 > 400
    /\ probe.opacity = 0

\* C17: of two distances, the scale computed for the smaller one is less than
\* or equal to the scale computed for the larger one.
C17_ScaleShrinksNear ==
    (probe.done /\ probe.d1 < probe.d2) => probe.scale1 <= probe.scale2

\* C18: of two times before progress 0.8, the suction speed computed for the
\* later one, at the same distance, is greater than or equal to the speed
\* computed for the earlier one.
C18_SpeedGrows ==
    (probe.done /\ probe.e1 < probe.e2 /\ probe.e2 * 10 < 8 * suckDuration)
        => probe.speed1 <= probe.speed2

\* two such times, the later one with the strictly greater speed
C18_Witness ==
    /\ probe.done
    /\ probe.e1 < probe.e2
    /\ probe.e2 * 10 < 8 * suckDuration
    /\ probe.speed1 < probe.speed2

\* C19: within a day the granted showAccountModal calls number at most 1
\* plus the extra accounts held when the day began; a granted call after the
\* day's first takes exactly one extra account, and a denied call leaves both
\* localStorage items as they were.
C19_DailyLimit ==
    /\ [](granted <= 1 + extraAtDayStart)
    /\ [][/\ (granted' = granted + 1 /\ granted >= 1) =>
                /\ Positive(extraAccounts(Accounts))
                /\ localStorage'.extraAccounts =
                      Item(numberToString(extraAccounts(Accounts).n - 1))
          /\ lastShow' = "denied" =>
                /\ localStorage' = localStorage
                /\ granted' = granted]_vars

\* a day that began with two or more extra accounts: all are used up and
\* the next call has been denied
C19_Witness ==
    /\ extraAtDayStart >= 2
    /\ granted = 1 + extraAtDayStart
    /\ lastShow = "denied"

\* C20: a running suction loop that is not deactivated completes; a frame
\* completes it exactly when its elapsed time has reached suckDuration, and
\* from then on no suction frame is pending.
C20_SuctionCompletes ==
    /\ (isActive /\ phase = "running") ~> (~isActive \/ phase = "complete")
    /\ [][(clock' # clock /\ phase = "running") =>
             /\ phase' = "complete" <=>
                   \E i \in DOMAIN rafQueue :
                       clock' - rafQueue[i].startTime >= suckDuration
             /\ phase' = "complete" => ~SuctionPending']_vars
    /\ [](phase = "complete" => ~SuctionPending)

\* the loop has completed in a frame later than suckDuration after more than
\* one earlier frame
C20_Witness ==
    /\ isActive
    /\ phase = "complete"
    /\ clock > suckDuration
    /\ hole.width = <<800>>

\* C21: at most one frame callback of the float loop is pending.
C21_OneFloatCallback ==
    Cardinality({i \in DOMAIN rafQueue : rafQueue[i].kind = "float"}) <= 1

\* C22: one page load constructs exactly one controller, whatever the
\* document's readyState was when the script was evaluated: once the script
\* has been evaluated and DOMContentLoaded has fired there is exactly one, there
\* is never more than one, a click on the trigger causes at most one toggle,
\* and at most one suction loop runs.
C22_OneController ==
    /\ Len(controllers) <= 1
    /\ (scriptEvaluated /\ domContentLoaded) => Len(controllers) = 1
    /\ toggledByClick <= 1
    /\ Cardinality({i \in DOMAIN controllers : controllers[i].loops > 0}) <= 1

Spec == Init /\ [][Next]_vars
====
